---- MODULE Spec2Model ----
(***************************************************************************)
(* The authenticated incremental synchronisation loop of the Gmail        *)
(* Prometheus exporter: src/src/main.rs (startup, the Backfill command    *)
(* and the FetchRecentMail watch loop), src/src/mail.rs (the four         *)
(* provider calls with their refresh-and-retry loops) and src/src/auth.rs *)
(* (the credential).  The mail provider and the token endpoint are the    *)
(* environment: a mailbox whose change log only grows, and responses      *)
(* chosen among the envelopes the code distinguishes.                     *)
(***************************************************************************)
EXTENDS Naturals, Sequences, FiniteSets

(* ------------------------------ bounds -------------------------------- *)

\* message ids the mailbox may ever hold
MaxMsgs == 2
\* length of the mailbox's change log (history records), in the runs that
\* explore the synchronisation (Spec) and the authorization (SpecAuth)
MaxLog == 3
AuthLog == 2
\* the last token the token endpoint issues in a run of SpecAuth and of
\* Spec; a 401 envelope is sent only while a refresh can still be answered
\* with a new token
MaxIssued == 3
SyncIssued == 2
\* history records the provider puts on one page
PageSize == 2
\* iterations of the watch loop
MaxCycles == 1

Msgs == 1 .. MaxMsgs

(* ------------------------- Option<T>, helpers ------------------------- *)

\* Rust's Option: None is the empty sequence, Some(x) the one-element one.
None == << >>
Some(x) == << x >>
is_some(o) == o # None
unwrap(o) == o[1]

Min(a, b) == IF a <= b THEN a ELSE b

last(s) == s[Len(s)]

VARIABLES
    \* ---- the program ----
    pc,             \* position of main
    command,        \* cli.command
    callback,       \* whether GOOGLE_CALLBACK is set
    client_id,      \* GoogleAuth.client_id
    client_secret,  \* GoogleAuth.client_secret
    access_token,   \* GoogleAuth.access_token : Option
    refresh_token,  \* GoogleAuth.refresh_token : Option
    refreshing,     \* inside do_refresh, called from the retry loop of pc
    labels,         \* main's labels: the catalog load_labels returned
    starting_from,  \* main's watermark
    page_token,     \* fetch_history's page_token : Option
    history_list,   \* fetch_history's accumulator
    listing,        \* fetch_mail_details's listing: main's history or mail_listing
    idx,            \* position of the for loops (listing / mail_details)
    results,        \* fetch_mail_details's accumulator
    mail_details,   \* main's mail_details
    email_received, \* the email_received counter, per message emitted
    email_polls,    \* the email_polls counter
    panicIn,        \* the call the process panicked in ("" while running)
    \* ---- the environment ----
    log,            \* the mailbox's history records, oldest first
    issued,         \* the last token the token endpoint issued
    tokenPosts,     \* the requests sent to the token endpoint
    limits,         \* what the environment does at most in this run
    \* ---- observation of the run ----
    req,            \* the logical request in progress
    reqDone,        \* the last logical request that got a final response
    pages,          \* the history pages received by fetch_history, kept
                    \* until its result is first used
    outcomes,       \* per reference of the listing: "ok" or "notfound"
    cycleStartW,    \* starting_from at the start of the current cycle
    cycles,         \* completed iterations of the watch loop
    dirty,          \* the mailbox changed since the current cycle began
    prevQuiet       \* the mailbox did not change during the previous cycle

vars ==
    << pc, command, callback, client_id, client_secret, access_token,
       refresh_token, refreshing, labels, starting_from, page_token,
       history_list, listing, idx, results, mail_details, email_received,
       email_polls, panicIn, log, issued, tokenPosts, limits, req, reqDone,
       pages, outcomes, cycleStartW, cycles, dirty, prevQuiet >>

progVars ==
    << starting_from, page_token, history_list, listing, idx, results,
       mail_details, email_received, email_polls >>

obsVars == << pages, outcomes, cycleStartW, cycles, dirty, prevQuiet >>

(* ----------------------------- the mailbox ---------------------------- *)

\* A history record: a message added, its labels changed, or it deleted.
\* The record's id is its position in the log.
Kinds == { "added", "labels", "deleted" }

InLog(m) == \E i \in 1 .. Len(log) : log[i].msg = m

Deleted(m) == \E i \in 1 .. Len(log) : log[i].msg = m /\ log[i].kind = "deleted"

\* the id of the record that added m
AddedAt(m) == CHOOSE i \in 1 .. Len(log) : log[i].msg = m /\ log[i].kind = "added"

\* MessageDetails.history_id: the last record that changed m
HistoryIdOf(m) ==
    CHOOSE i \in 1 .. Len(log) :
        /\ log[i].msg = m
        /\ \A j \in 1 .. Len(log) : log[j].msg = m => j <= i

\* History as the history endpoint sends record k
HistoryRecord(k) ==
    [ id |-> k,
      messages_added |->
          IF log[k].kind = "added" THEN Some(<< log[k].msg >>) ELSE None ]

\* HistoryResponse for startHistoryId = w and pageToken = tok, n records long
HistoryResponse(w, tok, n) ==
    LET from == IF is_some(tok) THEN unwrap(tok) ELSE w
    IN  [ history |->
              IF n = 0 THEN None
              ELSE Some([ i \in 1 .. n |-> HistoryRecord(from + i) ]),
          next_page_token |->
              IF from + n < Len(log) THEN Some(from + n) ELSE None,
          history_id |-> Len(log) ]

\* the page lengths the provider may choose
PageLengths(w, tok) ==
    LET from == IF is_some(tok) THEN unwrap(tok) ELSE w
    IN  IF from >= Len(log) THEN { 0 }
        ELSE 1 .. Min(PageSize, Len(log) - from)

\* the shapes a message's details may arrive in: the From and To headers
\* and internalDate well-formed ("ok"), or one of the three not
Shapes == { "ok", "bad_from", "bad_to", "bad_date" }

\* The labels endpoint's response: the system label INBOX and the user
\* label Label_1, named receipts.  The user label Label_2 is created after
\* the exporter has started: no response to load_labels holds it.
LabelsResponse ==
    << [ id |-> "INBOX", name |-> "INBOX" ],
       [ id |-> "Label_1", name |-> "receipts" ] >>

\* the label ids a message may carry, in the order it gets them
AllLabelIds == << "INBOX", "Label_1", "Label_2" >>

\* MessageDetails.label_ids: a message arrives with INBOX, and each change
\* of its labels applies the next label to it
LabelIdsOf(m) ==
    LET changes == { i \in 1 .. Len(log) :
                        log[i].msg = m /\ log[i].kind = "labels" }
    IN  SubSeq(AllLabelIds, 1, Min(Len(AllLabelIds), 1 + Cardinality(changes)))

\* MessageDetails of message m, the fields UsableMessageDetails::from reads;
\* from and to are the values of the From and To headers of the payload
MessageDetails(m, shape) ==
    [ id |-> m,
      history_id |-> HistoryIdOf(m),
      label_ids |-> LabelIdsOf(m),
      from |-> IF shape = "bad_from" THEN "a@@b <" ELSE "a@b.org",
      to |-> IF shape = "bad_to" THEN "a@@b <" ELSE "c@d.org",
      internal_date |-> IF shape = "bad_date" THEN "soon" ELSE "1000" ]

\* MessagesList.messages: the messages in the mailbox, newest first
RECURSIVE MessagesFrom(_)
MessagesFrom(k) ==
    IF k = 0 THEN << >>
    ELSE IF log[k].kind = "added" /\ ~Deleted(log[k].msg)
         THEN << log[k].msg >> \o MessagesFrom(k - 1)
         ELSE MessagesFrom(k - 1)

\* the envelopes a data endpoint may answer with
ResponseKinds ==
    { "ok", "error" } \cup (IF issued < limits.issued THEN { "auth" } ELSE { })

(* ------------------------- src/src/auth.rs ---------------------------- *)

\* a bug: the gate lets an unauthenticated client through
AlwaysAuthenticated == TRUE

\* GoogleAuth::is_authenticated
is_authenticated == is_some(access_token)

\* GoogleAuth::needs_refresh: json["error"]["code"] == 401
needs_refresh(json) == json.kind = "auth"

\* a bug: a refresh whose result is not kept at all, the field taken out
\* (Option::take) to print it
RefreshedTokenAbsent(old, response_json) == None

\* a bug: the token of the response is dropped, the stale one kept
RefreshedTokenStale(old, response_json) == old

\* do_refresh's assignment: access_token = Some(response_json["access_token"])
RefreshedToken(old, response_json) == Some(response_json.access_token)

\* a bug: the refresh_token of the response is stored as the exchange
\* stores it; the response to a refresh grant carries none
RefreshTokenLost(old, response_json) == None

\* do_refresh assigns access_token and nothing else: the refresh_token
\* after it is the one before it
RefreshTokenAfter(old, response_json) == old

\* a bug: refresh_token.clone().unwrap_or_default(), so that the form is
\* built and sent with an empty refresh_token
RefreshFormAlways == TRUE

\* do_refresh builds its form: refresh_token.clone().expect(..) returns
RefreshForm == is_some(refresh_token)

(* ------------------------- src/src/mail.rs ---------------------------- *)

\* the for_each over one record's messages_added
RECURSIVE PushAll(_, _)
PushAll(list, messages) ==
    IF messages = << >> THEN list
    ELSE PushAll(Append(list, messages[1]), Tail(messages))

\* the for_each over a page's history records
RECURSIVE PushHistory(_, _)
PushHistory(list, records) ==
    IF records = << >> THEN list
    ELSE PushHistory(
             IF is_some(records[1].messages_added)
             THEN PushAll(list, unwrap(records[1].messages_added))
             ELSE list,
             Tail(records))

\* a bug: the accumulator is begun anew for every page
AccumulateLastPage(list, response) ==
    IF is_some(response.history)
    THEN PushHistory(<< >>, unwrap(response.history))
    ELSE << >>

\* fetch_history: what one page adds to history_list
Accumulate(list, response) ==
    IF is_some(response.history)
    THEN PushHistory(list, unwrap(response.history))
    ELSE list

\* mailparse::addrparse, a Result: the address list, or None for Err
addrparse(value) == IF value = "a@@b <" THEN None ELSE Some(<< value >>)

\* str::parse::<i64> of internalDate and timestamp_millis_opt(..).latest()
timestamp_millis(value) == IF value = "1000" THEN Some(1000) ELSE None

\* a bug: unwrap_or_default for each of the three unwraps
ConvertsAlways(message) == TRUE

\* UsableMessageDetails::from returns: none of its unwrap() and expect()
\* calls panics
Converts(message) ==
    /\ is_some(addrparse(message.to))
    /\ is_some(addrparse(message.from))
    /\ is_some(timestamp_millis(message.internal_date))

\* load_labels: the HashMap of the response's labels, id to name; a later
\* insert of an id replaces an earlier one
Catalog(list) ==
    [ id \in { list[i].id : i \in 1 .. Len(list) } |->
          LET i == CHOOSE i \in 1 .. Len(list) :
                       /\ list[i].id = id
                       /\ \A j \in 1 .. Len(list) : list[j].id = id => j <= i
          IN  list[i].name ]

\* a bug: filter_map(|x| labels.get(x).cloned()), which drops the ids the
\* catalog does not hold
RECURSIVE ResolveKnownLabels(_, _)
ResolveKnownLabels(label_ids, catalog) ==
    IF label_ids = << >> THEN << >>
    ELSE (IF label_ids[1] \in DOMAIN catalog
          THEN << catalog[label_ids[1]] >> ELSE << >>)
         \o ResolveKnownLabels(Tail(label_ids), catalog)

\* label_ids.iter().map(|x| labels.get(x).cloned().unwrap_or(x.clone()))
RECURSIVE ResolveLabels(_, _)
ResolveLabels(label_ids, catalog) ==
    IF label_ids = << >> THEN << >>
    ELSE << IF label_ids[1] \in DOMAIN catalog
            THEN catalog[label_ids[1]] ELSE label_ids[1] >>
         \o ResolveLabels(Tail(label_ids), catalog)

\* UsableMessageDetails::from, the fields the watch loop reads
UsableMessageDetails(message, catalog) ==
    [ id |-> message.id,
      history_id |-> message.history_id,
      labels |-> ResolveLabels(message.label_ids, catalog) ]

\* a bug: any error envelope is skipped, whatever its code
IsAnyError(json) == json.kind \in { "notfound", "error" }

\* fetch_mail_details: res["error"]["code"] == 404
is_not_found(json) == json.kind = "notfound"

\* a bug: break where the code says continue
AfterNotFoundBreak(i, refs) == Len(refs) + 1

\* fetch_mail_details: the loop position after a not-found (continue)
AfterNotFound(i, refs) == i + 1

\* a bug: the response's historyId taken as the new watermark at once
WatermarkAfterSyncAdvanced(w, response) == response.history_id

\* fetch_history borrows starting_from (&str) and never assigns it: the
\* watermark main holds after a page is the one it held before
WatermarkAfterSync(w, response) == w

(* ------------------------- src/src/main.rs ---------------------------- *)

\* a bug: an empty batch resets the watermark (unwrap_or_default)
NextWatermarkReset(w, details) ==
    IF details # << >> THEN last(details).history_id ELSE 0

\* a bug: the first event of the batch, not the last
NextWatermarkFirst(w, details) ==
    IF details # << >> THEN details[1].history_id ELSE w

\* the watch loop's assignment to starting_from
NextWatermark(w, details) ==
    IF details # << >> THEN last(details).history_id ELSE w

\* a bug: the counter is incremented where the event is logged and once
\* more where it is counted
IncrementTwice(received, message) ==
    [ received EXCEPT ![message.id] = @ + 2 ]

\* counter!("email_received", 1, &message.as_labels())
Increment(received, message) ==
    [ received EXCEPT ![message.id] = @ + 1 ]

(* -------------------- the logical request observed -------------------- *)

ReqIdle ==
    [ attempts |-> 0, refreshes |-> 0, firstTok |-> None, sentTok |-> None,
      refreshTok |-> None ]

\* one more attempt of the request in progress, carrying access_token
Sent(r) ==
    [ r EXCEPT !.attempts = @ + 1,
               !.sentTok = access_token,
               !.firstTok = IF r.attempts = 0 THEN access_token ELSE @ ]

\* the record of a request whose attempt got the final response `kind`
Finished(r, kind) ==
    [ call |-> pc, kind |-> kind, attempts |-> r.attempts,
      refreshes |-> r.refreshes, firstTok |-> r.firstTok,
      sentTok |-> r.sentTok, refreshTok |-> r.refreshTok ]

(* ------------------------------- Init --------------------------------- *)

\* the state of main as it begins, the environment variables read
Started ==
    /\ pc = "start"
    /\ command \in { "Backfill", "FetchRecentMail" }
    /\ client_id = "GOOGLE_CLIENT_ID"
    /\ client_secret = "GOOGLE_CLIENT_SECRET"
    /\ refreshing = FALSE
    /\ labels = << >>
    /\ starting_from = 0
    /\ page_token = None
    /\ history_list = << >>
    /\ listing = << >>
    /\ idx = 1
    /\ results = << >>
    /\ mail_details = << >>
    /\ email_received = [ m \in Msgs |-> 0 ]
    /\ email_polls = 0
    /\ panicIn = ""
    /\ log = << >>
    /\ issued = 1
    /\ tokenPosts = 0
    /\ req = ReqIdle
    /\ reqDone = Finished(ReqIdle, "")
    /\ pages = << >>
    /\ outcomes = << >>
    /\ cycleStartW = 0
    /\ cycles = 0
    /\ dirty = FALSE
    /\ prevQuiet = FALSE

\* a run with both tokens in the environment and no GOOGLE_CALLBACK
Init ==
    /\ Started
    /\ callback = FALSE
    /\ access_token = Some(1)
    /\ refresh_token = Some(1)
    /\ limits = [ log |-> MaxLog, issued |-> SyncIssued ]

\* a run from any environment: each token set or not, GOOGLE_CALLBACK too
InitAuth ==
    /\ Started
    /\ callback \in BOOLEAN
    /\ access_token \in { None, Some(1) }
    /\ refresh_token \in { None, Some(1) }
    /\ limits = [ log |-> AuthLog, issued |-> MaxIssued ]

(* --------------------------- shared steps ----------------------------- *)

\* the calls that go through a refresh-and-retry loop
Calls == { "load_labels", "fetch_mail", "fetch_history", "fetch_mail_details" }

\* a provider call is in progress.  The program sees the mailbox in the
\* responses only: the changes that happen between two calls are those
\* that happen while the next call is in progress
InCall == pc \in Calls

\* a bug: the page token is declared inside the retry loop, so that the
\* request after a refresh asks for the first page again
ToRefreshRestart ==
    /\ refreshing' = TRUE
    /\ req' = Sent(req)
    /\ page_token' = None
    /\ UNCHANGED << pc, command, callback, limits, client_id, client_secret,
                    access_token, refresh_token, labels, starting_from,
                    history_list, listing, idx, results, mail_details,
                    email_received, email_polls, panicIn, log, issued,
                    tokenPosts, reqDone, obsVars >>

\* `if GoogleAuth::needs_refresh(&json).await`: on to do_refresh
ToRefresh ==
    /\ refreshing' = TRUE
    /\ req' = Sent(req)
    /\ UNCHANGED << pc, command, callback, limits, client_id, client_secret,
                    access_token, refresh_token, labels, progVars, panicIn,
                    log, issued, tokenPosts, reqDone, obsVars >>

\* an unwrap() or expect() that fails: the process dies in the call pc.
\* The observation of the pages, of the outcomes and of the mailbox's quiet
\* periods ends with the process
Panic ==
    /\ pc' = "panicked"
    /\ panicIn' = pc
    /\ pages' = << >>
    /\ outcomes' = << >>
    /\ dirty' = FALSE
    /\ prevQuiet' = FALSE
    /\ UNCHANGED << command, callback, limits, client_id, client_secret,
                    access_token, refresh_token, refreshing, labels, progVars,
                    log, issued, cycleStartW, cycles >>

\* a response that is no authorization failure and does not deserialize
PanicOnResponse ==
    /\ Panic
    /\ req' = ReqIdle
    /\ reqDone' = Finished(Sent(req), "error")
    /\ UNCHANGED tokenPosts

\* what the observation keeps of a detail response that deserializes
Seen(shape) == IF shape = "ok" THEN "ok" ELSE "malformed"

\* a response that deserializes and whose conversion panics
PanicOnConversion(shape) ==
    /\ Panic
    /\ req' = ReqIdle
    /\ reqDone' = Finished(Sent(req), Seen(shape))
    /\ UNCHANGED tokenPosts

\* access_token.as_ref().unwrap() on None, before anything is sent
PanicNoToken ==
    /\ Panic
    /\ UNCHANGED << req, reqDone, tokenPosts >>

(* ------------------------------ startup ------------------------------- *)

\* main: handle_callback_url when GOOGLE_CALLBACK is set
HandleCallback ==
    /\ pc = "start"
    /\ IF callback
       THEN \E outcome \in { "tokens", "refused", "bad_url" } :
                IF outcome = "tokens"
                THEN /\ access_token' = Some(issued + 1)
                     /\ refresh_token' = Some(issued + 1)
                     /\ issued' = issued + 1
                     /\ tokenPosts' = tokenPosts + 1
                     /\ pc' = "gate"
                     /\ UNCHANGED panicIn
                ELSE /\ pc' = "panicked"
                     /\ panicIn' = "handle_callback_url"
                     \* Url::parse or the code parameter fails before the
                     \* request, the response's expects after it
                     /\ tokenPosts' = IF outcome = "refused"
                                      THEN tokenPosts + 1 ELSE tokenPosts
                     /\ UNCHANGED << access_token, refresh_token, issued >>
       ELSE /\ pc' = "gate"
            /\ UNCHANGED << access_token, refresh_token, issued, tokenPosts,
                            panicIn >>
    /\ UNCHANGED << command, callback, limits, client_id, client_secret,
                    refreshing, labels, progVars, log, req, reqDone,
                    obsVars >>

\* main: the is_authenticated gate, exit(1) when unauthenticated
AuthGate ==
    /\ pc = "gate"
    /\ pc' = IF is_authenticated THEN "load_labels" ELSE "exited"
    /\ UNCHANGED << command, callback, limits, client_id, client_secret,
                    access_token, refresh_token, refreshing, labels, progVars,
                    panicIn, log, issued, tokenPosts, req, reqDone, obsVars >>

(* ----------------------------- do_refresh ----------------------------- *)

\* GoogleAuth::do_refresh, called from the retry loop of the call pc
DoRefresh ==
    /\ pc \in Calls
    /\ refreshing
    /\ IF ~RefreshForm
       \* the expect fails while the form is built, before send
       THEN /\ Panic
            /\ UNCHANGED << req, reqDone, tokenPosts >>
       ELSE \E good \in BOOLEAN :
                LET response_json == [ access_token |-> issued + 1 ]
                IN  IF good
                    THEN /\ access_token' =
                                RefreshedToken(access_token, response_json)
                         /\ refresh_token' =
                                RefreshTokenAfter(refresh_token, response_json)
                         /\ issued' = issued + 1
                         /\ tokenPosts' = tokenPosts + 1
                         /\ refreshing' = FALSE
                         /\ req' = [ req EXCEPT !.refreshes = @ + 1,
                                                !.refreshTok = Some(issued + 1) ]
                         /\ UNCHANGED << pc, command, callback, limits,
                                         client_id, client_secret, labels,
                                         progVars, panicIn, log, reqDone,
                                         obsVars >>
                    \* the response carries no access_token
                    ELSE /\ Panic
                         /\ tokenPosts' = tokenPosts + 1
                         /\ UNCHANGED << req, reqDone >>

(* ------------------------- the provider calls ------------------------- *)

\* a final response: the logical request is over
Done(kind) ==
    /\ req' = ReqIdle
    /\ reqDone' = Finished(Sent(req), kind)

\* MailClient::load_labels, one turn of its loop
LoadLabels ==
    /\ pc = "load_labels"
    /\ ~refreshing
    /\ \E kind \in ResponseKinds :
           LET json == [ kind |-> kind, labels |-> LabelsResponse ]
           IN  IF access_token = None THEN PanicNoToken
               ELSE IF needs_refresh(json) THEN ToRefresh
               ELSE IF kind = "error" THEN PanicOnResponse
               ELSE /\ Done(kind)
                    /\ labels' = Catalog(json.labels)
                    /\ pc' = IF command = "Backfill" THEN "fetch_mail"
                                                     ELSE "fetch_history"
                    \* the first cycle begins
                    /\ dirty' = FALSE
                    /\ UNCHANGED << command, callback, limits, client_id,
                                    client_secret, access_token,
                                    refresh_token, refreshing,
                                    progVars, panicIn, log, issued,
                                    tokenPosts, pages, outcomes, cycleStartW,
                                    cycles, prevQuiet >>

\* fetch_mail_details called with an empty listing returns at once
AfterListing(refs) ==
    IF refs = << >>
    THEN /\ mail_details' = << >>
         /\ pc' = IF command = "Backfill" THEN "done" ELSE "advance"
    ELSE /\ mail_details' = mail_details
         /\ pc' = "fetch_mail_details"

\* MailClient::fetch_mail, one turn of its loop (Backfill)
FetchMail ==
    /\ pc = "fetch_mail"
    /\ ~refreshing
    /\ \E kind \in ResponseKinds :
           LET json == [ kind |-> kind ]
               messages == MessagesFrom(Len(log))
           IN  IF access_token = None THEN PanicNoToken
               ELSE IF needs_refresh(json) THEN ToRefresh
               \* MessagesList.messages is no Option: an empty mailbox's
               \* response, which has no "messages", does not deserialize
               ELSE IF kind = "error" \/ messages = << >> THEN PanicOnResponse
               ELSE /\ Done(kind)
                    /\ listing' = messages
                    /\ idx' = 1
                    /\ results' = << >>
                    /\ AfterListing(messages)
                    /\ UNCHANGED << command, callback, limits, client_id,
                                    client_secret, access_token,
                                    refresh_token, refreshing, starting_from,
                                    page_token, history_list, email_received,
                                    email_polls, labels, panicIn, log, issued,
                                    tokenPosts, obsVars >>

\* MailClient::fetch_history, one turn of its inner loop and what follows
\* the break: the page is accumulated, and the outer loop goes on or ends
FetchHistory ==
    /\ pc = "fetch_history"
    /\ ~refreshing
    /\ \E kind \in ResponseKinds, n \in PageLengths(starting_from, page_token) :
           LET json == [ kind |-> kind ]
               response == HistoryResponse(starting_from, page_token, n)
               list == Accumulate(history_list, response)
           IN  IF access_token = None THEN PanicNoToken
               ELSE IF needs_refresh(json) THEN ToRefresh
               ELSE IF kind = "error" THEN PanicOnResponse
               ELSE /\ Done(kind)
                    /\ pages' = Append(pages, response)
                    /\ IF response.next_page_token = None
                       THEN /\ listing' = list
                            /\ history_list' = << >>
                            /\ page_token' = None
                            /\ idx' = 1
                            /\ results' = << >>
                            /\ AfterListing(list)
                       ELSE /\ history_list' = list
                            /\ page_token' = response.next_page_token
                            /\ UNCHANGED << pc, listing, idx, results,
                                            mail_details >>
                    /\ starting_from' = WatermarkAfterSync(starting_from, response)
                    /\ UNCHANGED << command, callback, limits, client_id,
                                    client_secret, access_token,
                                    refresh_token, refreshing, email_received,
                                    email_polls, labels, panicIn, log, issued,
                                    tokenPosts, outcomes, cycleStartW, cycles,
                                    dirty, prevQuiet >>

\* the end of fetch_mail_details's for loop: results is returned
AfterDetails(i, res) ==
    IF i > Len(listing)
    THEN /\ mail_details' = res
         /\ results' = << >>
         /\ pc' = IF command = "Backfill" THEN "done" ELSE "advance"
    ELSE /\ results' = res
         /\ UNCHANGED << mail_details, pc >>

\* MailClient::fetch_mail_details, one turn of the loop of one reference
FetchMailDetails ==
    /\ pc = "fetch_mail_details"
    /\ ~refreshing
    /\ idx <= Len(listing)
    /\ \E kind \in ResponseKinds, shape \in Shapes :
           LET message == listing[idx]
               json == [ kind |-> IF kind = "ok" /\ Deleted(message)
                                  THEN "notfound" ELSE kind ]
               message_details == MessageDetails(message, shape)
           IN  IF access_token = None THEN PanicNoToken
               ELSE IF needs_refresh(json) THEN ToRefresh
               ELSE IF is_not_found(json)
               THEN /\ Done(json.kind)
                    /\ idx' = AfterNotFound(idx, listing)
                    /\ outcomes' = Append(outcomes, "notfound")
                    /\ AfterDetails(idx', results)
                    /\ pages' = << >>
                    /\ UNCHANGED << command, callback, limits, client_id,
                                    client_secret, access_token,
                                    refresh_token, refreshing, starting_from,
                                    page_token, history_list, listing,
                                    email_received, email_polls, labels,
                                    panicIn, log, issued, tokenPosts,
                                    cycleStartW, cycles, dirty, prevQuiet >>
               ELSE IF json.kind = "error" THEN PanicOnResponse
               ELSE IF ~Converts(message_details) THEN PanicOnConversion(shape)
               ELSE /\ Done(Seen(shape))
                    /\ idx' = idx + 1
                    /\ outcomes' = Append(outcomes, "ok")
                    /\ AfterDetails(idx', Append(results,
                                        UsableMessageDetails(message_details, labels)))
                    /\ pages' = << >>
                    /\ UNCHANGED << command, callback, limits, client_id,
                                    client_secret, access_token,
                                    refresh_token, refreshing, starting_from,
                                    page_token, history_list, listing,
                                    email_received, email_polls, labels,
                                    panicIn, log, issued, tokenPosts,
                                    cycleStartW, cycles, dirty, prevQuiet >>

(* --------------------------- the watch loop --------------------------- *)

\* main: `if !mail_details.is_empty()` and the assignment to starting_from
AdvanceWatermark ==
    /\ pc = "advance"
    /\ starting_from' = NextWatermark(starting_from, mail_details)
    /\ idx' = 1
    /\ pc' = IF mail_details # << >> THEN "emit" ELSE "sleep"
    /\ pages' = << >>
    /\ UNCHANGED << command, callback, limits, client_id, client_secret,
                    access_token, refresh_token, refreshing, page_token,
                    history_list, listing, results, mail_details,
                    email_received, email_polls, labels, panicIn, log, issued,
                    tokenPosts, req, reqDone, outcomes, cycleStartW, cycles,
                    dirty, prevQuiet >>

\* main: one turn of `for message in mail_details`, the counter! call
EmitCounter ==
    /\ pc = "emit"
    /\ idx <= Len(mail_details)
    /\ email_received' = Increment(email_received, mail_details[idx])
    /\ idx' = idx + 1
    /\ pc' = IF idx' > Len(mail_details) THEN "sleep" ELSE "emit"
    /\ UNCHANGED << command, callback, limits, client_id, client_secret,
                    access_token, refresh_token, refreshing, starting_from,
                    page_token, history_list, listing, results, mail_details,
                    email_polls, labels, panicIn, log, issued, tokenPosts,
                    req, reqDone, obsVars >>

\* main: thread::sleep, and the loop's next turn begins
Sleep ==
    /\ pc = "sleep"
    /\ cycles < MaxCycles
    /\ pc' = "fetch_history"
    /\ listing' = << >>
    /\ mail_details' = << >>
    /\ idx' = 1
    /\ cycles' = cycles + 1
    /\ cycleStartW' = starting_from
    /\ pages' = << >>
    /\ outcomes' = << >>
    /\ prevQuiet' = ~dirty
    /\ dirty' = FALSE
    /\ UNCHANGED << command, callback, limits, client_id, client_secret,
                    access_token, refresh_token, refreshing, starting_from,
                    page_token, history_list, results, email_received,
                    email_polls, labels, panicIn, log, issued, tokenPosts,
                    req, reqDone >>

(* ------------------------ the mailbox changes ------------------------- *)

Change(kind, m) ==
    /\ InCall
    /\ Len(log) < limits.log
    /\ log' = Append(log, [ kind |-> kind, msg |-> m ])
    /\ dirty' = TRUE
    /\ UNCHANGED << pc, command, callback, limits, client_id, client_secret,
                    access_token, refresh_token, refreshing, labels, progVars,
                    panicIn, issued, tokenPosts, req, reqDone, pages,
                    outcomes, cycleStartW, cycles, prevQuiet >>

\* a message arrives
MessageAdded == \E m \in Msgs : ~InLog(m) /\ Change("added", m)

\* a message's labels change: its history_id grows
MessageModified == \E m \in Msgs : InLog(m) /\ ~Deleted(m) /\ Change("labels", m)

\* a message is deleted
MessageDeleted == \E m \in Msgs : InLog(m) /\ ~Deleted(m) /\ Change("deleted", m)

Next ==
    \/ HandleCallback
    \/ AuthGate
    \/ DoRefresh
    \/ LoadLabels
    \/ FetchMail
    \/ FetchHistory
    \/ FetchMailDetails
    \/ AdvanceWatermark
    \/ EmitCounter
    \/ Sleep
    \/ MessageAdded
    \/ MessageModified
    \/ MessageDeleted

Spec == Init /\ [][Next]_vars

SpecAuth == InitAuth /\ [][Next]_vars

(* ------------------------------ claims -------------------------------- *)

IsPrefix(s, t) == Len(s) <= Len(t) /\ \A i \in 1 .. Len(s) : s[i] = t[i]

InCycle == command = "FetchRecentMail"

\* C1: a logical request is attempted at most twice and refreshed for at
\* most once: after two authorization failures in a row there is no third
\* attempt and no second refresh.
AtMostTwoAttempts == req.attempts <= 2 /\ req.refreshes <= 1

\* C2: a request whose first response was an authorization failure and
\* whose retry got a final response other than an error was refreshed for
\* exactly once, and its retry carried the token that refresh produced, not
\* the token of the first attempt.
AuthSelfHeal ==
    (reqDone.attempts = 2 /\ reqDone.kind \in { "ok", "notfound" }) =>
        /\ reqDone.refreshes = 1
        /\ reqDone.sentTok = reqDone.refreshTok
        /\ reqDone.sentTok # reqDone.firstTok

\* a history page fetched on the retry after one authorization failure
AuthSelfHealWitness ==
    /\ reqDone.call = "fetch_history"
    /\ reqDone.attempts = 2
    /\ reqDone.kind = "ok"
    /\ pages # << >>

\* C3: at the end of every cycle, every message that was added after the
\* initial watermark, lies at or before the watermark and is not deleted
\* has been emitted.
NoMessageLost ==
    pc = "sleep" =>
        \A m \in Msgs :
            (InLog(m) /\ ~Deleted(m) /\ AddedAt(m) <= starting_from)
                => email_received[m] >= 1

\* C4: no step moves the watermark backward.
WatermarkMonotone == [][starting_from' >= starting_from]_vars

\* the watermark has advanced in a second or later cycle
WatermarkMonotoneWitness ==
    pc = "sleep" /\ cycles >= 1 /\ starting_from > cycleStartW /\ cycleStartW > 0

\* what a sync from watermark w returns on the mailbox as it is
RECURSIVE Sync(_, _, _)
Sync(w, tok, list) ==
    LET from == IF is_some(tok) THEN unwrap(tok) ELSE w
        n == IF from >= Len(log) THEN 0 ELSE Min(PageSize, Len(log) - from)
        response == HistoryResponse(w, tok, n)
        acc == PushHistory(list, IF n = 0 THEN << >> ELSE unwrap(response.history))
    IN  IF response.next_page_token = None THEN acc
        ELSE Sync(w, response.next_page_token, acc)

\* C5: when enrichment fails in a cycle, the watermark is the one the cycle
\* began with, and a sync from it returns every reference of the batch
\* again (followed by those of the messages added since).
EnrichFailureKeepsWatermark ==
    (InCycle /\ pc = "panicked" /\ panicIn = "fetch_mail_details") =>
        /\ starting_from = cycleStartW
        /\ IsPrefix(listing, Sync(starting_from, None, << >>))

\* enrichment failed after one of two references was processed
EnrichFailureWitness ==
    /\ InCycle
    /\ pc = "panicked"
    /\ panicIn = "fetch_mail_details"
    /\ Len(listing) = 2
    /\ idx = 2
    /\ cycles >= 1

\* C6: while an event of the batch is still to be emitted, the watermark
\* is the one the cycle began with.
AdvanceOnlyAfterEmit ==
    (pc = "emit" /\ idx <= Len(mail_details)) => starting_from = cycleStartW

\* C7: no message is counted twice, and a cycle that follows a cycle during
\* which the mailbox did not change, and during which it has not changed
\* either, ends with no event.
Idempotence ==
    /\ \A m \in Msgs : email_received[m] <= 1
    /\ (InCycle /\ prevQuiet /\ ~dirty /\ pc \in { "advance", "emit", "sleep" })
           => mail_details = << >>

\* the cycle after a quiet cycle ended, with a message counted before and a
\* deleted message's reference listed again
IdempotenceWitness ==
    /\ pc = "sleep"
    /\ prevQuiet
    /\ ~dirty
    /\ listing # << >>
    /\ \E m \in Msgs : email_received[m] = 1

\* the references of the messagesAdded of the records of the pages, in order
RECURSIVE RecordsAdded(_)
RecordsAdded(records) ==
    IF records = << >> THEN << >>
    ELSE (IF records[1].messages_added = None THEN << >>
          ELSE records[1].messages_added[1]) \o RecordsAdded(Tail(records))

RECURSIVE AllAdded(_)
AllAdded(ps) ==
    IF ps = << >> THEN << >>
    ELSE (IF ps[1].history = None THEN << >> ELSE RecordsAdded(ps[1].history[1]))
         \o AllAdded(Tail(ps))

\* C8: fetch_history's list is the concatenation, in page order and record
\* order, of the messagesAdded references of all the pages of the chain,
\* which it follows to the page that has no nextPageToken.
PaginationComplete ==
    /\ (InCycle /\ pc = "fetch_history") => history_list = AllAdded(pages)
    /\ (InCycle /\ pc \in { "fetch_mail_details", "advance" } /\ pages # << >>) =>
           /\ listing = AllAdded(pages)
           /\ \A i \in 1 .. Len(pages) :
                  (pages[i].next_page_token = None) <=> (i = Len(pages))

\* three pages, one of them with a record that adds no message
PaginationWitness ==
    /\ InCycle
    /\ pc = "fetch_mail_details"
    /\ Len(pages) = 3
    /\ Len(listing) = 2

\* the references whose detail fetch was not answered not-found, in order
RECURSIVE Kept(_, _)
Kept(refs, outs) ==
    IF refs = << >> \/ outs = << >> THEN << >>
    ELSE (IF outs[1] = "notfound" THEN << >> ELSE << refs[1] >>)
         \o Kept(Tail(refs), Tail(outs))

Ids(details) == [ i \in 1 .. Len(details) |-> details[i].id ]

\* C9: when fetch_mail_details has returned, every reference of the listing
\* was fetched and the result holds the events of exactly those not
\* answered not-found, in order; a not-found never makes the call fail.
NotFoundSkipped ==
    /\ pc \in { "advance", "emit", "sleep", "done" } =>
           /\ Len(outcomes) = Len(listing)
           /\ Ids(mail_details) = Kept(listing, outcomes)
    /\ (pc = "panicked" /\ panicIn = "fetch_mail_details" /\ ~refreshing)
           => reqDone.kind \notin { "ok", "notfound" }

\* the first of two references was answered not-found, the second enriched
NotFoundWitness ==
    /\ pc = "advance"
    /\ Len(listing) = 2
    /\ outcomes = << "notfound", "ok" >>
    /\ Len(mail_details) = 1

\* C10: email_polls counts the cycles: one increment in each.
PollsOncePerCycle == InCycle => email_polls \in { cycles, cycles + 1 }

\* no message the current cycle synchronised is counted: the cycle asked
\* for the records after cycleStartW, so the messages it can count are
\* those added after it
NoneCountedThisCycle ==
    \A m \in Msgs :
        email_received[m] >= 1 => InLog(m) /\ AddedAt(m) <= cycleStartW

\* C11: a detail response with a malformed From or To header or an
\* unparsable internalDate aborts the run inside fetch_mail_details: the
\* message is not counted, and neither is any other message of the batch
\* or of the cycle, those enriched before it included.
MalformedAborts ==
    reqDone.kind = "malformed" =>
        /\ pc = "panicked"
        /\ panicIn = "fetch_mail_details"
        /\ \A i \in 1 .. Len(listing) : email_received[listing[i]] = 0
        /\ NoneCountedThisCycle

\* the second message of a batch of two has a malformed header or an
\* unparsable internalDate, the first was enriched
MalformedWitness ==
    /\ InCycle
    /\ pc = "panicked"
    /\ reqDone.kind = "malformed"
    /\ Len(listing) = 2
    /\ idx = 2
    /\ Len(results) = 1

\* C12: no data call is made while access_token is absent: main goes past
\* the gate with a token only, every attempt of every request carried a
\* token, and a run whose token is absent has sent no request at all.
NoCallWithoutToken ==
    /\ access_token = None => pc \in { "start", "gate", "exited", "panicked" }
    /\ access_token = None => req.attempts = 0 /\ reqDone.attempts = 0
    /\ req.attempts > 0 => is_some(req.firstTok) /\ is_some(req.sentTok)
    /\ reqDone.attempts > 0 =>
           is_some(reqDone.firstTok) /\ is_some(reqDone.sentTok)

\* the environment held no access token: main exited at the gate
NoCallWitness ==
    /\ pc = "exited"
    /\ access_token = None
    /\ ~callback
    /\ reqDone.attempts = 0

\* C13: a do_refresh that returns has replaced access_token by the token
\* the endpoint issued and left refresh_token, client_id and client_secret
\* as they were; refresh_token is written by handle_callback_url only,
\* which runs before the gate, so that after any number of refreshes it
\* is what it was when the watch loop started.
RefreshFrame ==
    [][ /\ (refreshing /\ ~refreshing') =>
               /\ access_token' = Some(issued')
               /\ access_token' # access_token
               /\ refresh_token' = refresh_token
               /\ client_id' = client_id
               /\ client_secret' = client_secret
        /\ refresh_token' # refresh_token => pc = "start"
        /\ (client_id' = client_id /\ client_secret' = client_secret)
      ]_vars

\* two refreshes in a run of the watch loop whose tokens came from the
\* environment
RefreshFrameWitness ==
    /\ InCycle
    /\ pc = "sleep"
    /\ ~callback
    /\ access_token = Some(3)
    /\ refresh_token = Some(1)
    /\ tokenPosts = 2

\* C16: an authorization failure answered while refresh_token is absent
\* ends in do_refresh's panic: no request went or goes to the token
\* endpoint, access_token stays the one the failed attempt carried, and the
\* data request, attempted once, is not attempted again.
RefreshWithoutToken ==
    /\ [](refreshing /\ refresh_token = None =>
              /\ tokenPosts = 0
              /\ req.attempts = 1
              /\ access_token = req.sentTok)
    /\ [][ refreshing /\ refresh_token = None =>
               /\ refreshing'
               /\ pc' \in { pc, "panicked" }
               /\ UNCHANGED << access_token, refresh_token, tokenPosts, req >>
         ]_vars

\* the history request was answered 401 in a run without refresh token
RefreshWithoutTokenWitness ==
    /\ pc = "panicked"
    /\ panicIn = "fetch_history"
    /\ refreshing
    /\ refresh_token = None
    /\ is_some(access_token)
    /\ tokenPosts = 0

\* C14: once a cycle with a non-empty batch has advanced, the watermark is
\* the history_id of the last event of the batch, which is the event of
\* the last reference of the listing that was not skipped as not found.
WatermarkIsLastEvent ==
    (InCycle /\ pc \in { "emit", "sleep" } /\ mail_details # << >>) =>
        /\ starting_from = mail_details[Len(mail_details)].history_id
        /\ mail_details[Len(mail_details)].id =
               last(Kept(listing, outcomes))

\* the last reference of two was skipped, and the history response, whose
\* historyId was 3, is not where the watermark went
WatermarkIsLastEventWitness ==
    /\ InCycle
    /\ pc = "sleep"
    /\ outcomes = << "ok", "notfound" >>
    /\ ~dirty
    /\ Len(log) = 3
    /\ starting_from = 1

\* C15: a provider error that is neither an authorization failure nor a
\* detail request's not-found, answered to the history request or to a
\* detail request, aborts the cycle in that call: the watermark is the one
\* the cycle began with and no message of the cycle is counted.
ErrorAborts ==
    (InCycle /\ reqDone.kind = "error"
             /\ reqDone.call \in { "fetch_history", "fetch_mail_details" }) =>
        /\ pc = "panicked"
        /\ panicIn = reqDone.call
        /\ starting_from = cycleStartW
        /\ NoneCountedThisCycle

\* the history request of the second cycle was answered with an error,
\* after a first cycle that counted a message
ErrorAbortsWitness ==
    /\ InCycle
    /\ pc = "panicked"
    /\ reqDone.kind = "error"
    /\ reqDone.call = "fetch_history"
    /\ cycles = 1
    /\ cycleStartW > 0
    /\ \E m \in Msgs : email_received[m] = 1

\* the label ids message m carried when its history_id was h
LabelIdsAt(m, h) ==
    LET n == Cardinality({ i \in 1 .. h :
                              log[i].msg = m /\ log[i].kind = "labels" })
    IN  [ i \in 1 .. Min(Len(AllLabelIds), 1 + n) |-> AllLabelIds[i] ]

\* C17: the labels of every enriched event are the element-wise image of
\* the label ids of its message under the catalog: as many, in the same
\* order, the name for an id the catalog holds and the id itself for one
\* it does not hold.
LabelsResolved ==
    \A events \in { results, mail_details } :
        \A k \in 1 .. Len(events) :
            LET ids == LabelIdsAt(events[k].id, events[k].history_id)
                resolved == events[k].labels
            IN  /\ Len(resolved) = Len(ids)
                /\ \A i \in 1 .. Len(ids) :
                       /\ ids[i] \in DOMAIN labels => resolved[i] = labels[ids[i]]
                       /\ ids[i] \notin DOMAIN labels => resolved[i] = ids[i]

\* an event of a message that carries a label the catalog names by its id,
\* one it names otherwise, and one it does not hold
LabelsResolvedWitness ==
    /\ pc = "advance"
    /\ Len(mail_details) = 1
    /\ mail_details[1].labels = << "INBOX", "receipts", "Label_2" >>

\* the messages the current cycle can count: those added after the
\* watermark it began with
CycleMsgs == { m \in Msgs : InLog(m) /\ AddedAt(m) > cycleStartW }

RECURSIVE Increments(_)
Increments(S) ==
    IF S = { } THEN 0
    ELSE LET m == CHOOSE m \in S : TRUE
         IN  email_received[m] + Increments(S \ { m })

NotFoundCount(outs) == Cardinality({ i \in 1 .. Len(outs) : outs[i] = "notfound" })

\* C18: a cycle increments email_received once for each event of its
\* batch, in batch order: while it emits, the events before the loop's
\* position are counted once and the others not yet, and when it is
\* through, the increments of the cycle are as many as the references
\* fetch_history returned less those skipped as not found.
EmitOncePerEvent ==
    (InCycle /\ pc \in { "emit", "sleep" }) =>
        /\ \A i \in 1 .. Len(mail_details) :
               email_received[mail_details[i].id] = IF i < idx THEN 1 ELSE 0
        /\ \A i, j \in 1 .. Len(mail_details) :
               mail_details[i].id = mail_details[j].id => i = j
        /\ pc = "sleep" =>
               Increments(CycleMsgs) = Len(listing) - NotFoundCount(outcomes)

\* the first of two events is counted, the second is about to be
EmitOncePerEventWitness ==
    /\ InCycle
    /\ pc = "emit"
    /\ Len(mail_details) = 2
    /\ idx = 2
    /\ email_received[mail_details[1].id] = 1

\* the ids of the history records of the pages, in order
RECURSIVE RecordIds(_)
RecordIds(ps) ==
    IF ps = << >> THEN << >>
    ELSE (IF ps[1].history = None THEN << >>
          ELSE [ i \in 1 .. Len(ps[1].history[1]) |-> ps[1].history[1][i].id ])
         \o RecordIds(Tail(ps))

\* C19: an authorization failure answered to a page request of
\* fetch_history changes neither the watermark asked from, nor the page
\* token, nor the references accumulated, and neither does the refresh: the
\* next attempt is the same request.  The pages received are then those of
\* a synchronisation without the failure, the records after the cycle's
\* watermark, each once and in order, and the list returned is their
\* references.
RetrySameRequest ==
    /\ [][ (pc = "fetch_history" /\ (refreshing \/ refreshing')) =>
               UNCHANGED << starting_from, page_token, history_list >>
         ]_vars
    /\ []((InCycle /\ pc \in { "fetch_mail_details", "advance" }
                   /\ pages # << >>) =>
              /\ RecordIds(pages) =
                     [ i \in 1 .. Len(RecordIds(pages)) |-> cycleStartW + i ]
              /\ listing = AllAdded(pages))

\* the request for the second page was answered 401, then refreshed for
\* and answered again
RetrySameRequestWitness ==
    /\ InCycle
    /\ pc = "fetch_mail_details"
    /\ Len(pages) = 2
    /\ Len(listing) = 2
    /\ reqDone.call = "fetch_history"
    /\ reqDone.attempts = 2
    /\ reqDone.refreshes = 1

\* C20: a cycle whose batch is empty, because fetch_history returned no
\* reference or because every reference was skipped as not found, ends
\* with the watermark it began with and has counted no message.
EmptyBatchNoEffect ==
    (InCycle /\ pc = "sleep" /\ mail_details = << >>) =>
        /\ starting_from = cycleStartW
        /\ NoneCountedThisCycle
        /\ \A i \in 1 .. Len(listing) : email_received[listing[i]] = 0

\* the one reference of the second cycle was answered not-found
EmptyBatchWitness ==
    /\ InCycle
    /\ pc = "sleep"
    /\ mail_details = << >>
    /\ Len(listing) = 1
    /\ outcomes = << "notfound" >>
    /\ cycles = 1
    /\ cycleStartW > 0

\* main is past the authentication gate, dead or alive
PastGate ==
    \/ pc \in Calls \cup { "advance", "emit", "sleep", "done" }
    \/ pc = "panicked" /\ panicIn \in Calls

\* C21: past the authentication gate access_token is present in every
\* state; no step, a refresh included, makes a present access_token
\* absent; and every attempt of a data request carries the access_token
\* of the moment it is sent, which sending does not change.
TokenPresentPastGate ==
    /\ [](PastGate => is_some(access_token))
    /\ [][ /\ is_some(access_token) => is_some(access_token')
           /\ req'.attempts > req.attempts =>
                  /\ req'.sentTok = access_token
                  /\ access_token' = access_token
         ]_vars

\* the tokens came from the callback, a data request was refreshed for, and
\* its retry carried the refreshed token, which is the current one
TokenPresentWitness ==
    /\ callback
    /\ pc = "emit"
    /\ access_token = Some(3)
    /\ reqDone.attempts = 2
    /\ reqDone.firstTok = Some(2)
    /\ reqDone.sentTok = access_token

====
